---- MODULE Spec2Model ----
(***************************************************************************)
(* The CarbonMarketplace application of src/contracts/carbon-marketplace.py *)
(* as a state machine.  One action per application call the router accepts: *)
(* the three bare calls (opt_in, close_out, clear_state) and the seven ABI  *)
(* methods.  A call is evaluated as the AVM evaluates it: the Seq runs top   *)
(* to bottom, a failing Assert or a read/write of the local state of an     *)
(* account that has not opted in rejects the call, and a rejected call      *)
(* commits nothing.                                                         *)
(*                                                                         *)
(* uint64 arithmetic: the AVM rejects a call whose + or * overflows; it      *)
(* never wraps.  The inputs below keep every sum far below 2^64, so that     *)
(* rejection is outside the explored cases.                                 *)
(***************************************************************************)
EXTENDS Integers, FiniteSets, Sequences, TLC

\* ------------------------------------------------------------------ bounds
\* Every explored behaviour holds at most MaxCalls steps.
MaxCalls == 4

\* ------------------------------------------------------ environment, inputs
Addresses == {"D", "A", "B"}
\* Global.creator_address(): the account that created the application.
creator_address == "D"
\* Global.current_application_address(): the application's escrow account.
current_application_address == "APP"
\* What App.globalGet yields for a key that was never put: the uint64 0,
\* which is no address (Txn.sender() == 0 is a type error and rejects).
NoValue == "uint64:0"

FeeValues == {100}
AdminValues == {"A"}
ProjectNames == {"Forest X"}
CreditAmounts == {1, 1000}
PriceValues == {50, 1000000}
Vintages == {2023}
ProjectIdValues == {0, 1}
PurchaseQuantities == {1, 2}
Quantities == {0, 1, 2}
\* The payment transaction grouped with a purchase: its receiver and amount.
Payment(receiver, amount) == [receiver |-> receiver, amount |-> amount]
Payments == {Payment(current_application_address, 50),
             Payment(current_application_address, 1000000),
             Payment(current_application_address, 2000000),
             Payment("D", 2000000)}
Reasons == {"offset 2024"}
Beneficiaries == {"Acme Corp"}

\* ------------------------------------------------------------------- state
VARIABLES
    marketplace_fee,        \* global "marketplace_fee"
    admin_address,          \* global "admin_address"
    total_projects,         \* global "total_projects"
    total_credits_issued,   \* global "total_credits_issued"
    total_credits_retired,  \* global "total_credits_retired"
    projects,               \* globals "project_" ++ Itob(id): id -> record
    purchase_log,           \* globals "purchase_" ++ sender ++ "_" ++ Itob(ts)
    retirement_log,         \* globals "retirement_" ++ sender ++ "_" ++ Itob(ts)
    transfer_log,           \* globals "transfer_" ++ Itob(ts)
    opted_in,               \* accounts that hold local state of the application
    credits_owned,          \* local "credits_owned", per account
    credits_retired,        \* local "credits_retired", per account
    latest_timestamp,       \* Global.latest_timestamp()
    last,                   \* the call just evaluated and its outcome
    ncalls                  \* steps taken so far

globals == <<marketplace_fee, admin_address, total_projects,
             total_credits_issued, total_credits_retired>>
audit == <<purchase_log, retirement_log, transfer_log>>
locals == <<opted_in, credits_owned, credits_retired>>
contract_state == <<globals, projects, audit, locals>>
vars == <<contract_state, latest_timestamp, last, ncalls>>

\* ----------------------------------------------------------------- helpers
\* App.globalPut(key, value) on a family of keys: insert or overwrite.
globalPut(f, k, v) == [x \in (DOMAIN f) \cup {k} |-> IF x = k THEN v ELSE f[x]]

\* App.localPut(account, key, value).
localPut(f, a, v) == [f EXCEPT ![a] = v]

\* App.localGet / App.localPut are only defined on accounts that opted in.
hasLocalState(a) == a \in opted_in

credit_creator(owned, a, quantity) ==
    localPut(owned, creator_address, owned[creator_address] + quantity)

\* credits_owned of `a` raised by `quantity` (an App.localGet, +, App.localPut).
credit(owned, a, quantity) == localPut(owned, a, owned[a] + quantity)

debit_forgotten(owned, a, quantity) == owned

\* credits_owned of `a` lowered by `quantity` (an App.localGet, -, App.localPut).
debit(owned, a, quantity) == localPut(owned, a, owned[a] - quantity)

Outcome(op, ok, output) == [op |-> op, ok |-> ok, output |-> output]

Approve(op, output) ==
    /\ ncalls < MaxCalls
    /\ last' = Outcome(op, TRUE, output)
    /\ ncalls' = ncalls + 1
    /\ UNCHANGED latest_timestamp

\* A rejected call commits nothing.
Reject(op) ==
    /\ ncalls < MaxCalls
    /\ last' = Outcome(op, FALSE, <<>>)
    /\ ncalls' = ncalls + 1
    /\ UNCHANGED <<contract_state, latest_timestamp>>

\* -------------------------------------------------------------------- Init
\* The state right after the creating no_op bare call: nothing stored.
Init ==
    /\ marketplace_fee = 0
    /\ admin_address = NoValue
    /\ total_projects = 0
    /\ total_credits_issued = 0
    /\ total_credits_retired = 0
    /\ projects = << >>
    /\ purchase_log = << >>
    /\ retirement_log = << >>
    /\ transfer_log = << >>
    /\ opted_in = {}
    /\ credits_owned = [a \in Addresses |-> 0]
    /\ credits_retired = [a \in Addresses |-> 0]
    /\ latest_timestamp = 0
    /\ last = Outcome("create", TRUE, <<>>)
    /\ ncalls = 0

\* -------------------------------------------------------------- bare calls
\* opt_in: Approve().  The ledger allocates the sender's local state; an
\* account that already opted in cannot opt in again.
opt_in(sender) ==
    IF sender \notin opted_in
    THEN /\ opted_in' = opted_in \cup {sender}
         /\ UNCHANGED <<globals, projects, audit, credits_owned, credits_retired>>
         /\ Approve("opt_in", <<>>)
    ELSE Reject("opt_in")

\* close_out: Approve().  The ledger deletes the sender's local state.
close_out(sender) ==
    IF sender \in opted_in
    THEN /\ opted_in' = opted_in \ {sender}
         /\ credits_owned' = localPut(credits_owned, sender, 0)
         /\ credits_retired' = localPut(credits_retired, sender, 0)
         /\ UNCHANGED <<globals, projects, audit>>
         /\ Approve("close_out", <<>>)
    ELSE Reject("close_out")

\* clear_state: the clear program is Approve(); the local state is deleted.
clear_state(sender) ==
    IF sender \in opted_in
    THEN /\ opted_in' = opted_in \ {sender}
         /\ credits_owned' = localPut(credits_owned, sender, 0)
         /\ credits_retired' = localPut(credits_retired, sender, 0)
         /\ UNCHANGED <<globals, projects, audit>>
         /\ Approve("clear_state", <<>>)
    ELSE Reject("clear_state")

\* ------------------------------------------------- initialize_marketplace
\* Assert(Txn.sender() == Global.creator_address())
initialize_approves(sender) == sender = creator_address

initialize_marketplace(sender, fee_basis_points, admin) ==
    IF initialize_approves(sender)
    THEN /\ marketplace_fee' = fee_basis_points
         /\ admin_address' = admin
         /\ total_projects' = 0
         /\ total_credits_issued' = 0
         /\ total_credits_retired' = 0
         /\ UNCHANGED <<projects, audit, locals>>
         /\ Approve("initialize_marketplace", <<>>)
    ELSE Reject("initialize_marketplace")

\* -------------------------------------------------------- register_project
\* Concat(name, "|", Itob(type), "|", ..., Itob(vintage)): the six fields in
\* the order they are concatenated.
ProjectRecord(project_name, project_type, verification_standard, total_credits, price_per_credit, vintage) ==
    [project_name |-> project_name, project_type |-> project_type,
     verification_standard |-> verification_standard,
     total_credits |-> total_credits, price_per_credit |-> price_per_credit,
     vintage |-> vintage]

register_approves_creator(sender) == sender = creator_address

\* Assert(Txn.sender() == App.globalGet(admin_address))
register_approves(sender) ==
    admin_address # NoValue /\ sender = admin_address

register_project(sender, project_name, project_type, verification_standard, total_credits, price_per_credit, vintage) ==
    IF register_approves(sender)
    THEN /\ projects' = globalPut(projects, total_projects,
                ProjectRecord(project_name, project_type, verification_standard,
                              total_credits, price_per_credit, vintage))
         /\ total_projects' = total_projects + 1
         /\ total_credits_issued' = total_credits_issued + total_credits
         /\ UNCHANGED <<marketplace_fee, admin_address, total_credits_retired,
                        audit, locals>>
         /\ Approve("register_project", <<>>)
    ELSE Reject("register_project")

\* -------------------------------------------------------- purchase_credits
\* get_project_price: reads the stored record (a read of a missing key yields
\* 0, it does not reject) and returns Int(1000000) whatever was read.
DefaultPrice == 1000000

get_project_price(project_id) == DefaultPrice

PaymentRecord(project_id, quantity, amount) ==
    [project_id |-> project_id, quantity |-> quantity, amount |-> amount]

\* purchase_approves with the supply check the code does not make.
purchase_approves_supply_checked(sender, project_id, quantity, payment) ==
    /\ payment.receiver = current_application_address
    /\ payment.amount >= quantity * get_project_price(project_id)
    /\ project_id \in DOMAIN projects
    /\ quantity <= projects[project_id].total_credits
    /\ hasLocalState(sender)

purchase_approves(sender, project_id, quantity, payment) ==
    /\ payment.receiver = current_application_address
    /\ payment.amount >= quantity * get_project_price(project_id)
    /\ hasLocalState(sender)

purchase_credits(sender, project_id, quantity, payment) ==
    IF purchase_approves(sender, project_id, quantity, payment)
    THEN /\ credits_owned' = credit(credits_owned, sender, quantity)
         /\ purchase_log' = globalPut(purchase_log, <<sender, latest_timestamp>>,
                PaymentRecord(project_id, quantity, payment.amount))
         /\ UNCHANGED <<globals, projects, retirement_log, transfer_log,
                        opted_in, credits_retired>>
         /\ Approve("purchase_credits", <<>>)
    ELSE Reject("purchase_credits")

\* ---------------------------------------------------------- retire_credits
RetirementRecord(quantity, retirement_reason, beneficiary) ==
    [quantity |-> quantity, retirement_reason |-> retirement_reason,
     beneficiary |-> beneficiary]

hasEnoughCredits_unchecked(sender, quantity) == hasLocalState(sender)

\* Assert(App.localGet(Txn.sender(), credits_owned) >= quantity)
hasEnoughCredits(sender, quantity) ==
    hasLocalState(sender) /\ credits_owned[sender] >= quantity

retire_credits(sender, quantity, retirement_reason, beneficiary) ==
    IF hasEnoughCredits(sender, quantity)
    THEN /\ credits_owned' = debit(credits_owned, sender, quantity)
         /\ credits_retired' = localPut(credits_retired, sender,
                                        credits_retired[sender] + quantity)
         /\ total_credits_retired' = total_credits_retired + quantity
         /\ retirement_log' = globalPut(retirement_log,
                <<sender, latest_timestamp>>,
                RetirementRecord(quantity, retirement_reason, beneficiary))
         /\ UNCHANGED <<marketplace_fee, admin_address, total_projects,
                        total_credits_issued, projects, purchase_log,
                        transfer_log, opted_in>>
         /\ Approve("retire_credits", <<>>)
    ELSE Reject("retire_credits")

\* -------------------------------------------------------- transfer_credits
TransferRecord(sender, recipient, quantity) ==
    [sender |-> sender, recipient |-> recipient, quantity |-> quantity]

transferred_stale_read(sender, recipient, quantity) ==
    [a \in Addresses |->
        IF a = recipient THEN credits_owned[a] + quantity
        ELSE IF a = sender THEN credits_owned[a] - quantity
        ELSE credits_owned[a]]

\* The two localPut run in order: the recipient's balance is read after the
\* sender's balance was written.
transferred(sender, recipient, quantity) ==
    credit(debit(credits_owned, sender, quantity), recipient, quantity)

\* transfer_credits without the rollback of a rejected call: the sender's
\* debit, written before the recipient's local state is read, stays.
transfer_credits_no_rollback(sender, recipient, quantity) ==
    IF hasEnoughCredits(sender, quantity) /\ hasLocalState(recipient)
    THEN /\ credits_owned' = transferred(sender, recipient, quantity)
         /\ transfer_log' = globalPut(transfer_log, latest_timestamp,
                TransferRecord(sender, recipient, quantity))
         /\ UNCHANGED <<globals, projects, purchase_log, retirement_log,
                        opted_in, credits_retired>>
         /\ Approve("transfer_credits", <<>>)
    ELSE IF hasEnoughCredits(sender, quantity)
    THEN /\ credits_owned' = debit(credits_owned, sender, quantity)
         /\ UNCHANGED <<globals, projects, audit, opted_in, credits_retired,
                        latest_timestamp>>
         /\ ncalls < MaxCalls
         /\ last' = Outcome("transfer_credits", FALSE, <<>>)
         /\ ncalls' = ncalls + 1
    ELSE Reject("transfer_credits")

transfer_credits(sender, recipient, quantity) ==
    IF hasEnoughCredits(sender, quantity) /\ hasLocalState(recipient)
    THEN /\ credits_owned' = transferred(sender, recipient, quantity)
         /\ transfer_log' = globalPut(transfer_log, latest_timestamp,
                TransferRecord(sender, recipient, quantity))
         /\ UNCHANGED <<globals, projects, purchase_log, retirement_log,
                        opted_in, credits_retired>>
         /\ Approve("transfer_credits", <<>>)
    ELSE Reject("transfer_credits")

\* ------------------------------------------------------------ the queries
\* Neither query reads Txn.sender().
get_user_credits(user) ==
    IF hasLocalState(user)
    THEN /\ UNCHANGED contract_state
         /\ Approve("get_user_credits", <<credits_owned[user]>>)
    ELSE Reject("get_user_credits")

get_marketplace_stats ==
    /\ UNCHANGED contract_state
    /\ Approve("get_marketplace_stats",
               <<"projects:", total_projects, "|issued:", total_credits_issued,
                 "|retired:", total_credits_retired>>)

\* ---------------------------------------------------------------- the clock
\* A new block: Global.latest_timestamp() advances.
Tick ==
    /\ ncalls < MaxCalls
    /\ latest_timestamp' = latest_timestamp + 1
    /\ ncalls' = ncalls + 1
    /\ UNCHANGED <<contract_state, last>>

\* -------------------------------------------------------------------- Next
Next ==
    \/ \E s \in Addresses : opt_in(s)
    \/ \E s \in Addresses : close_out(s)
    \/ \E s \in Addresses : clear_state(s)
    \/ \E s \in Addresses, f \in FeeValues, a \in AdminValues :
           initialize_marketplace(s, f, a)
    \/ \E s \in Addresses, n \in ProjectNames, c \in CreditAmounts,
          p \in PriceValues, v \in Vintages :
           register_project(s, n, 1, 1, c, p, v)
    \/ \E s \in Addresses, i \in ProjectIdValues, q \in PurchaseQuantities,
          pay \in Payments :
           purchase_credits(s, i, q, pay)
    \/ \E s \in Addresses, q \in Quantities, r \in Reasons,
          b \in Beneficiaries :
           retire_credits(s, q, r, b)
    \/ \E s \in Addresses, r \in Addresses, q \in Quantities :
           transfer_credits(s, r, q)
    \/ \E u \in Addresses : get_user_credits(u)
    \/ get_marketplace_stats
    \/ Tick

Spec == Init /\ [][Next]_vars
\* ============================================================== properties
RECURSIVE SumOver(_, _)
\* The sum of f[x] over the finite set S.
SumOver(f, S) ==
    IF S = {} THEN 0
    ELSE LET x == CHOOSE y \in S : TRUE IN f[x] + SumOver(f, S \ {x})

\* Sum of total_credits over every project record the registry stores.
SumProjectCredits ==
    SumOver([i \in DOMAIN projects |-> projects[i].total_credits], DOMAIN projects)

SumOwned == SumOver(credits_owned, Addresses)
SumRetired == SumOver(credits_retired, Addresses)

\* The config has been set (state Active).
Initialized == admin_address # NoValue

\* The step evaluated a call of operation `op`.
Called(op) == ncalls' = ncalls + 1 /\ last'.op = op

\* The step is a call of the named operation, with some arguments.
RegisterStep ==
    Called("register_project") /\ \E s \in Addresses, n \in ProjectNames, c \in CreditAmounts,
       p \in PriceValues, v \in Vintages : register_project(s, n, 1, 1, c, p, v)
PurchaseStep ==
    Called("purchase_credits") /\ \E s \in Addresses, i \in ProjectIdValues, q \in PurchaseQuantities,
       pay \in Payments : purchase_credits(s, i, q, pay)
RetireStep ==
    Called("retire_credits") /\ \E s \in Addresses, q \in Quantities, r \in Reasons, b \in Beneficiaries :
        retire_credits(s, q, r, b)
TransferStep ==
    Called("transfer_credits") /\ \E s \in Addresses, r \in Addresses, q \in Quantities :
        transfer_credits(s, r, q)
InitializeStep ==
    Called("initialize_marketplace") /\ \E s \in Addresses, f \in FeeValues, a \in AdminValues :
        initialize_marketplace(s, f, a)

\* C1: in every reachable state total_credits_issued equals the sum of
\* total_credits over all project records stored in the registry.
C1_IssuedIsSumOfProjects == total_credits_issued = SumProjectCredits

\* C2: in every reachable state total_credits_retired equals the sum of
\* credits_retired over all accounts.
C2_RetiredIsSumOfAccounts == total_credits_retired = SumRetired

\* C3: once the config is set, every initialize call is rejected and the
\* config and the three aggregates keep their values.
C3_InitializeOnlyOnce ==
    [][(Initialized /\ InitializeStep) => (~last'.ok /\ UNCHANGED globals)]_vars

\* C4: while the config is not set, register_project, purchase_credits,
\* retire_credits and transfer_credits are rejected and change no state.
C4_NothingBeforeInitialize ==
    [][(~Initialized /\ (RegisterStep \/ PurchaseStep \/ RetireStep \/ TransferStep))
        => (~last'.ok /\ UNCHANGED contract_state)]_vars
\* C5: for a registered project with stored price p, a purchase (by a buyer
\* holding an account, paying the application) is rejected exactly when
\* payment < quantity * p and then leaves the buyer's balance unchanged;
\* otherwise it is approved and adds exactly quantity to credits_owned.
C5_PaymentAgainstStoredPrice ==
    [][Called("purchase_credits") => \A s \in Addresses, i \in ProjectIdValues, q \in PurchaseQuantities,
          pay \in Payments :
          ( /\ purchase_credits(s, i, q, pay)
            /\ i \in DOMAIN projects /\ i < total_projects
            /\ hasLocalState(s)
            /\ pay.receiver = current_application_address )
          => IF pay.amount < q * projects[i].price_per_credit
             THEN ~last'.ok /\ credits_owned'[s] = credits_owned[s]
             ELSE last'.ok /\ credits_owned'[s] = credits_owned[s] + q]_vars

\* C6: a purchase naming a project id >= total_projects is rejected, credits
\* no account and adds no audit entry.
C6_UnknownProjectRejected ==
    [][Called("purchase_credits") => \A s \in Addresses, i \in ProjectIdValues, q \in PurchaseQuantities,
          pay \in Payments :
          (purchase_credits(s, i, q, pay) /\ i >= total_projects)
          => (~last'.ok /\ UNCHANGED <<credits_owned, audit>>)]_vars

\* C7: register_project is approved exactly when the caller is the configured
\* admin, initialize exactly when the caller is the creator, and a rejected
\* call of either leaves the whole contract state unchanged.
C7_Authorization ==
    [][ /\ Called("register_project") =>
           \A s \in Addresses, n \in ProjectNames, c \in CreditAmounts,
              p \in PriceValues, v \in Vintages :
              register_project(s, n, 1, 1, c, p, v)
              => /\ last'.ok <=> (s = admin_address)
                 /\ ~last'.ok => UNCHANGED contract_state
        /\ Called("initialize_marketplace") =>
           \A s \in Addresses, f \in FeeValues, a \in AdminValues :
              initialize_marketplace(s, f, a)
              => /\ last'.ok <=> (s = creator_address)
                 /\ ~last'.ok => UNCHANGED contract_state ]_vars

\* C7 witness: with the admin configured and a project registered, a
\* register_project call was rejected.
C7_Witness ==
    /\ last.op = "register_project" /\ ~last.ok
    /\ Initialized /\ total_projects = 1 /\ 0 \in DOMAIN projects

NonNegativeBalances ==
    \A a \in Addresses : credits_owned[a] >= 0 /\ credits_retired[a] >= 0

\* C8: no balance is ever negative, and retire_credits / transfer_credits
\* with quantity above the caller's credits_owned are rejected and leave
\* every balance unchanged.
C8_NoUnderflow ==
    [][ /\ NonNegativeBalances /\ NonNegativeBalances'
        /\ Called("retire_credits") =>
           \A s \in Addresses, q \in Quantities, r \in Reasons,
              b \in Beneficiaries :
              (retire_credits(s, q, r, b) /\ q > credits_owned[s])
              => (~last'.ok /\ UNCHANGED <<credits_owned, credits_retired>>)
        /\ Called("transfer_credits") =>
           \A s \in Addresses, r \in Addresses, q \in Quantities :
              (transfer_credits(s, r, q) /\ q > credits_owned[s])
              => (~last'.ok /\ UNCHANGED <<credits_owned, credits_retired>>) ]_vars

\* C8 witness: every account holds local state and a retire_credits call was
\* rejected, so for lack of balance and not for lack of an account.
C8_Witness ==
    /\ last.op = "retire_credits" /\ ~last.ok
    /\ opted_in = Addresses

\* What an approved retire_credits(s, q, ..) does to the three counters.
RetireEffect(s, q) ==
    /\ credits_owned'[s] = credits_owned[s] - q
    /\ credits_retired'[s] = credits_retired[s] + q
    /\ total_credits_retired' = total_credits_retired + q

\* C9 as stated: an approved retire_credits moves quantity from the owner's
\* credits_owned to credits_retired and to total_credits_retired, and after
\* retiring the full balance the same call is rejected.
C9_RetireThenRepeatFails ==
    [][Called("retire_credits") =>
       \A s \in Addresses, q \in Quantities, r \in Reasons, b \in Beneficiaries :
          (retire_credits(s, q, r, b) /\ last'.ok)
          => /\ RetireEffect(s, q)
             /\ (q = credits_owned[s]) => ~hasEnoughCredits(s, q)']_vars

\* C9 amended: as C9, the repeated call being rejected when the retired full
\* balance was at least 1.
C9_RetireThenRepeatFailsIfPositive ==
    [][Called("retire_credits") =>
       \A s \in Addresses, q \in Quantities, r \in Reasons, b \in Beneficiaries :
          (retire_credits(s, q, r, b) /\ last'.ok)
          => /\ RetireEffect(s, q)
             /\ (q = credits_owned[s] /\ q >= 1) => ~hasEnoughCredits(s, q)']_vars

\* C9 witness: an account retired its full, positive balance.
C9_Witness ==
    /\ last.op = "retire_credits" /\ last.ok
    /\ \E a \in opted_in :
          /\ credits_owned[a] = 0 /\ credits_retired[a] >= 1
          /\ <<a, latest_timestamp>> \in DOMAIN retirement_log
          /\ retirement_log[<<a, latest_timestamp>>].quantity = credits_retired[a]
          /\ total_credits_retired = credits_retired[a]

\* C10: an approved transfer_credits moves quantity from the sender's to the
\* recipient's credits_owned (no change when they are the same account),
\* touches no other balance, preserves the sum of credits_owned and changes
\* no credits_retired nor total_credits_retired; a transfer above the
\* sender's balance is rejected and leaves the balances unchanged.
C10_TransferConserves ==
    [][Called("transfer_credits") => \A s \in Addresses, r \in Addresses, q \in Quantities :
          transfer_credits(s, r, q)
          => /\ last'.ok =>
                  /\ s # r => /\ credits_owned'[s] = credits_owned[s] - q
                              /\ credits_owned'[r] = credits_owned[r] + q
                  /\ s = r => credits_owned'[s] = credits_owned[s]
                  /\ \A a \in Addresses \ {s, r} :
                        credits_owned'[a] = credits_owned[a]
                  /\ SumOwned' = SumOwned
                  /\ UNCHANGED <<credits_retired, total_credits_retired>>
             /\ q > credits_owned[s] => ~last'.ok
             /\ ~last'.ok => UNCHANGED <<credits_owned, credits_retired>>]_vars

\* C10 witness: a positive quantity was transferred between two accounts.
C10_Witness ==
    /\ last.op = "transfer_credits" /\ last.ok
    /\ latest_timestamp \in DOMAIN transfer_log
    /\ LET t == transfer_log[latest_timestamp] IN
          /\ t.sender # t.recipient /\ t.quantity >= 1
          /\ credits_owned[t.recipient] >= t.quantity
\* Number of audit entries stored (purchase_, retirement_ and transfer_ keys).
AuditCount ==
    Cardinality(DOMAIN purchase_log) + Cardinality(DOMAIN retirement_log)
        + Cardinality(DOMAIN transfer_log)

\* Every entry of `log` is still stored, with the same value, after the step.
Kept(log, logAfter) ==
    \A k \in DOMAIN log : k \in DOMAIN logAfter /\ logAfter[k] = log[k]

\* C11: the audit log is append-only: no step overwrites, changes or deletes
\* a stored entry, and every approved purchase_credits, retire_credits and
\* transfer_credits adds exactly one new entry (also when two calls see the
\* same timestamp).
C11_AuditAppendOnly ==
    [][ /\ Kept(purchase_log, purchase_log')
        /\ Kept(retirement_log, retirement_log')
        /\ Kept(transfer_log, transfer_log')
        /\ ((PurchaseStep \/ RetireStep \/ TransferStep) /\ last'.ok)
              => AuditCount' = AuditCount + 1 ]_vars
\* C12: get_user_credits and get_marketplace_stats change nothing of the
\* contract state, and get_user_credits for an address that holds no account
\* (it never interacted) reports zero instead of failing.
C12_ReadsPureAndZeroForUnknown ==
    [][ /\ Called("get_user_credits") =>
           \A u \in Addresses :
              get_user_credits(u)
              => /\ UNCHANGED contract_state
                 /\ ~hasLocalState(u) => (last'.ok /\ last'.output = <<0>>)
        /\ (Called("get_marketplace_stats") /\ get_marketplace_stats)
              => UNCHANGED contract_state ]_vars
\* Which calls would be approved is the same before and after the step.
SameApprovals ==
    /\ \A s \in Addresses :
          /\ register_approves(s)' = register_approves(s)
          /\ hasLocalState(s)' = hasLocalState(s)
          /\ \A q \in Quantities : hasEnoughCredits(s, q)' = hasEnoughCredits(s, q)
    /\ \A s \in Addresses, i \in ProjectIdValues, q \in PurchaseQuantities,
          pay \in Payments :
          purchase_approves(s, i, q, pay)' = purchase_approves(s, i, q, pay)

\* C13: a rejected call, of any operation, leaves the whole contract state as
\* it was, and every call that was possible before it is possible after it.
C13_AllOrNothing ==
    [][(ncalls' = ncalls + 1 /\ ~last'.ok)
        => (UNCHANGED contract_state /\ SameApprovals)]_vars

\* C13 witness: a transfer_credits call was rejected while an account held
\* credits and another held no local state (the sender's debit precedes the
\* read of the recipient's local state).
C13_Witness ==
    /\ last.op = "transfer_credits" /\ ~last.ok
    /\ \E a \in opted_in : credits_owned[a] >= 1
    /\ opted_in # Addresses
\* C14: in every reachable state the stored project ids are exactly
\* 0 .. total_projects - 1 (so total_projects counts the stored records), and
\* an approved register_project stores its record under the id total_projects
\* had before the call and raises total_projects by one.
C14_ContiguousProjectIds ==
    [][ /\ DOMAIN projects = 0 .. (total_projects - 1)
        /\ DOMAIN projects' = 0 .. (total_projects' - 1)
        /\ (RegisterStep /\ last'.ok)
              => /\ total_projects' = total_projects + 1
                 /\ DOMAIN projects' = DOMAIN projects \cup {total_projects}
                 /\ total_projects \notin DOMAIN projects ]_vars

\* C15: a stored project record is never changed, replaced or removed.
C15_ProjectRecordsImmutable ==
    [][\A i \in DOMAIN projects :
          i \in DOMAIN projects' /\ projects'[i] = projects[i]]_vars
\* C16: accounts are created lazily and never deleted: a correctly paid
\* purchase_credits is approved and credits the buyer whether or not the
\* buyer interacted before, a transfer_credits the sender can afford is
\* approved whoever the recipient is, and the bare calls opt_in, close_out
\* and clear_state leave every credits_owned and credits_retired unchanged.
C16_AccountsLazyNeverDeleted ==
    [][ /\ Called("purchase_credits") =>
           \A s \in Addresses, i \in ProjectIdValues, q \in PurchaseQuantities,
              pay \in Payments :
              ( /\ purchase_credits(s, i, q, pay)
                /\ pay.receiver = current_application_address
                /\ pay.amount >= q * get_project_price(i) )
              => (last'.ok /\ credits_owned'[s] = credits_owned[s] + q)
        /\ Called("transfer_credits") =>
           \A s \in Addresses, r \in Addresses, q \in Quantities :
              (transfer_credits(s, r, q) /\ hasEnoughCredits(s, q))
              => (last'.ok /\ (s # r => credits_owned'[r] = credits_owned[r] + q))
        /\ (Called("opt_in") \/ Called("close_out") \/ Called("clear_state"))
              => UNCHANGED <<credits_owned, credits_retired>> ]_vars

\* C17: retirement is irreversible: no step lowers an account's
\* credits_retired or total_credits_retired.
C17_RetiredNeverDecreases ==
    [][ /\ \A a \in Addresses : credits_retired'[a] >= credits_retired[a]
        /\ total_credits_retired' >= total_credits_retired ]_vars
\* C18: purchase_credits makes no supply check: a purchase by an account
\* holder that pays the application at least quantity * price is approved and
\* credits quantity, whatever the project's total_credits is.
C18_NoSupplyCheck ==
    [][Called("purchase_credits") =>
       \A s \in Addresses, i \in ProjectIdValues, q \in PurchaseQuantities,
          pay \in Payments :
          ( /\ purchase_credits(s, i, q, pay)
            /\ hasLocalState(s)
            /\ pay.receiver = current_application_address
            /\ pay.amount >= q * get_project_price(i) )
          => (last'.ok /\ credits_owned'[s] = credits_owned[s] + q)]_vars

\* C18 witness: the oversold state.  One project with total_credits 1 is
\* registered, a purchase of 2 credits of it was approved, and the credits
\* held by the accounts exceed total_credits_issued.
C18_Witness ==
    /\ last.op = "purchase_credits" /\ last.ok
    /\ Initialized /\ DOMAIN projects = {0} /\ total_projects = 1
    /\ \E k \in DOMAIN purchase_log :
          /\ purchase_log[k].project_id = 0
          /\ purchase_log[k].quantity > projects[0].total_credits
    /\ SumOwned + SumRetired > total_credits_issued
\* Credits held by the accounts, owned or retired.
SumHeld == SumOwned + SumRetired

\* C19: credits enter the ledger only through purchases: an approved
\* purchase_credits of quantity q raises the sum of credits_owned +
\* credits_retired over all accounts by q, and no other step changes that sum
\* (so the sum always equals the quantities of the approved purchases).
C19_CreditsOnlyFromPurchases ==
    [][IF Called("purchase_credits") /\ last'.ok /\ PurchaseStep
       THEN \A s \in Addresses, i \in ProjectIdValues, q \in PurchaseQuantities,
               pay \in Payments :
               purchase_credits(s, i, q, pay) => SumHeld' = SumHeld + q
       ELSE SumHeld' = SumHeld]_vars
\* The two balances of every account outside `touched` are unchanged.
OthersUntouched(touched) ==
    \A a \in Addresses \ touched :
        /\ credits_owned'[a] = credits_owned[a]
        /\ credits_retired'[a] = credits_retired[a]

config == <<marketplace_fee, admin_address>>

====
